---- MODULE Spec2Model ----
(***************************************************************************)
(* Model of agents/product_copy_agents.py: CopyWriterAgent, ABTesterAgent, *)
(* FeedbackAgent and the PromptOptimizer loop that chains them.            *)
(*                                                                         *)
(* Texts are sequences of one-character strings.  Prompt templates are     *)
(* sequences of tokens: a replacement field "{product}", "{n}", "{tone}"   *)
(* (a field the caller supplies no value for) or a blank " ".              *)
(* A score is the numerator k of the float k / ScoreLevels in [0, 1).      *)
(***************************************************************************)
EXTENDS Integers, Sequences, FiniteSets, TLC

VARIABLES
    template,       \* PromptOptimizer.template (self.template)
    pc,             \* position of the optimize call
    product,        \* argument of the running optimize call
    rounds,         \* argument of the running optimize call
    i,              \* completed iterations of `for _ in range(rounds)`
    copies,         \* local `copies` of optimize
    results,        \* local `results` of optimize, an insertion-ordered dict
    err,            \* exception that left optimize, "none" if none
    retval,         \* value returned by optimize, None if none
    sent,           \* input of the client.responses.create call in progress
    log,            \* history: steps of the running optimize call
    ctorTemplate,   \* history: template given to PromptOptimizer.__init__
    startTemplate,  \* history: self.template when optimize was entered
    genArg,         \* history: template passed to generate_copies this round
    impArg,         \* history: template passed to improve_prompt this round
    lastOut,        \* history: last value returned by improve_prompt
    prior,          \* history: how the previous optimize call ended
    invocation,     \* history: number of optimize calls made so far
    unit            \* a direct call of one agent method (UnitSpec only)

vars == <<template, pc, product, rounds, i, copies, results, err, retval,
          sent, log, ctorTemplate, startTemplate, genArg, impArg, lastOut,
          prior, invocation, unit>>

optVars == <<template, pc, product, rounds, i, copies, results, err, retval,
             sent, log, ctorTemplate, startTemplate, genArg, impArg, lastOut,
             prior, invocation>>

---------------------------------------------------------------------------
(* Bounds *)

MaxTextLen == 3
MaxTplLen == 2
MaxRounds == 2
MaxCount == 2
MaxCopies == 2
MaxInvocations == 2
ScoreLevels == 2

(* n: int = 2, the default optimize relies on *)
DefaultN == 2

Chars == {"-", " ", "a", "b", "\n"}
Whitespace == {" ", "\n"}
BulletChars == {"-", " "}

TplTokens == {"{product}", "{n}", "{tone}", " "}
Products == {<<"e", "b">>}

SeqsUpTo(S, k) == UNION {[1..m -> S] : m \in 0..k}

Texts == SeqsUpTo(Chars, MaxTextLen)
TemplateTexts == SeqsUpTo(TplTokens, MaxTplLen)

(* What a client.responses.create call can do: raise, or return a text. *)
ServiceOutcomes(S) ==
    {[ok |-> TRUE, text |-> t] : t \in S} \cup {[ok |-> FALSE, text |-> <<>>]}

---------------------------------------------------------------------------
(* String helpers *)

RECURSIVE LStrip(_, _)
LStrip(s, cs) ==
    IF s # <<>> /\ Head(s) \in cs THEN LStrip(Tail(s), cs) ELSE s

RECURSIVE RStrip(_, _)
RStrip(s, cs) ==
    IF s # <<>> /\ s[Len(s)] \in cs THEN RStrip(SubSeq(s, 1, Len(s) - 1), cs)
    ELSE s

(* str.strip(chars): drops the characters of cs from both ends *)
Strip(s, cs) == RStrip(LStrip(s, cs), cs)

(* str.splitlines(): no trailing empty line, "" has no lines *)
RECURSIVE SplitLines(_)
SplitLines(s) ==
    IF s = <<>> THEN <<>>
    ELSE IF \E k \in 1..Len(s) : s[k] = "\n"
         THEN LET k == CHOOSE k \in 1..Len(s) :
                          s[k] = "\n" /\ \A j \in 1..(k - 1) : s[j] # "\n"
              IN  <<SubSeq(s, 1, k - 1)>> \o SplitLines(SubSeq(s, k + 1, Len(s)))
         ELSE <<s>>

(* lines[:n] for n >= 0 *)
Take(s, n) == SubSeq(s, 1, IF n < Len(s) THEN n ELSE Len(s))

NumStr(n) == <<"0", "1", "2", "3", "4", "5">>[n + 1]

---------------------------------------------------------------------------
(* CopyWriterAgent *)

(* prompt_template.format(product=product, n=n): a field with no argument  *)
(* raises KeyError; arguments no field uses are ignored.                   *)
FormatStrict(tpl, p, n) ==
    IF (\E j \in DOMAIN tpl : tpl[j] = "{tone}")
       \/ ~(\E j \in DOMAIN tpl : tpl[j] = "{product}")
       \/ ~(\E j \in DOMAIN tpl : tpl[j] = "{n}")
    THEN [exc |-> "KeyError", text |-> <<>>]
    ELSE [exc |-> "none",
          text |-> [j \in DOMAIN tpl |->
                      IF tpl[j] = "{product}" THEN p
                      ELSE IF tpl[j] = "{n}" THEN <<NumStr(n)>>
                      ELSE <<tpl[j]>>]]

Format(tpl, p, n) ==
    IF \E j \in DOMAIN tpl : tpl[j] \notin {"{product}", "{n}", " "}
    THEN [exc |-> "KeyError", text |-> <<>>]
    ELSE [exc |-> "none",
          text |-> [j \in DOMAIN tpl |->
                      IF tpl[j] = "{product}" THEN p
                      ELSE IF tpl[j] = "{n}" THEN <<NumStr(n)>>
                      ELSE <<tpl[j]>>]]

(* [line.strip("- ") for line in text.splitlines() if line.strip()] *)
RECURSIVE CleanLines(_)
CleanLines(ls) ==
    IF ls = <<>> THEN <<>>
    ELSE IF Strip(Head(ls), Whitespace) # <<>>
         THEN <<Strip(Head(ls), BulletChars)>> \o CleanLines(Tail(ls))
         ELSE CleanLines(Tail(ls))

ParseCopies(text, n) == Take(CleanLines(SplitLines(text)), n)

GenerationInput(prompt) == [model |-> "gpt-4.1-mini", input |-> prompt]

(* generate_copies as a whole: the exception it raises, the list it        *)
(* returns, and the service inputs it sent.                                *)
generate_copies(p, prompt_template, n, svc) ==
    LET f == Format(prompt_template, p, n)
    IN  IF f.exc # "none"
        THEN [exc |-> f.exc, value |-> <<>>, sent |-> <<>>]
        ELSE IF ~svc.ok
        THEN [exc |-> "ServiceError", value |-> <<>>,
              sent |-> <<GenerationInput(f.text)>>]
        ELSE [exc |-> "none", value |-> ParseCopies(svc.text, n),
              sent |-> <<GenerationInput(f.text)>>]

---------------------------------------------------------------------------
(* ABTesterAgent *)

Keys(d) == {d[j][1] : j \in DOMAIN d}

Get(d, k) == d[CHOOSE j \in DOMAIN d : d[j][1] = k][2]

(* d[k] = v on an insertion-ordered dict: a known key keeps its place *)
DictSet(d, k, v) ==
    IF k \in Keys(d)
    THEN [j \in DOMAIN d |-> IF d[j][1] = k THEN <<k, v>> ELSE d[j]]
    ELSE Append(d, <<k, v>>)

RECURSIVE DictBuild(_, _, _)
DictBuild(d, cs, draws) ==
    IF cs = <<>> THEN d
    ELSE DictBuild(DictSet(d, Head(cs), Head(draws)), Tail(cs), Tail(draws))

runDropLast(cs, draws) ==
    DictBuild(<<>>, SubSeq(cs, 1, Len(cs) - 1), SubSeq(draws, 1, Len(cs) - 1))

(* {copy: random.random() for copy in copies}; draws[j] is the j-th draw *)
run(cs, draws) == DictBuild(<<>>, cs, draws)

Draws(cs) == [1..Len(cs) -> 0..(ScoreLevels - 1)]

---------------------------------------------------------------------------
(* FeedbackAgent *)

RECURSIVE MaxFold(_, _)
MaxFold(best, rest) ==
    IF rest = <<>> THEN best
    ELSE IF Head(rest)[2] > best[2] THEN MaxFold(Head(rest), Tail(rest))
         ELSE MaxFold(best, Tail(rest))

MaxByKeyFirst(d) == d[1][1]

(* max(results, key=results.get) on a non-empty dict: the first key, in    *)
(* insertion order, whose value no later value exceeds                     *)
MaxByKey(d) == MaxFold(d[1], Tail(d))[1]

FeedbackInput(best_copy, tpl) ==
    [model |-> "gpt-4.1-mini",
     input |-> [head |-> "The following marketing copy performed best in an A/B test:",
                best_copy |-> best_copy,
                mid |-> "Original prompt template:",
                template |-> tpl,
                tail |-> "Suggest an improved prompt template that could yield better copies."]]

(* improve_prompt as a whole *)
improve_prompt(tpl, res, svc) ==
    IF res = <<>>
    THEN [exc |-> "ValueError", value |-> <<>>, sent |-> <<>>]
    ELSE LET best_copy == MaxByKey(res)
         IN  IF ~svc.ok
             THEN [exc |-> "ServiceError", value |-> <<>>,
                   sent |-> <<FeedbackInput(best_copy, tpl)>>]
             ELSE [exc |-> "none", value |-> Strip(svc.text, Whitespace),
                   sent |-> <<FeedbackInput(best_copy, tpl)>>]

---------------------------------------------------------------------------
(* PromptOptimizer *)

None == <<>>
Some(x) == <<x>>

(* the template main() builds: both fields, count first *)
MainTemplate == <<"{n}", "{product}">>

(* templates an optimizer is constructed with: main()'s, one without the   *)
(* count field, one with a field optimize supplies no value for, and ""    *)
InitTemplates == {MainTemplate, <<"{product}">>, <<"{tone}">>, <<>>}

(* generation responses of a stub service: no line, or one bulleted line *)
StubTexts == {<<>>, <<"-", " ", "a">>}

(* the record of a direct call of one agent method *)
NoResult == [exc |-> "none", value |-> <<>>, sent |-> <<>>]

UnitCall(op, t, n, cs, draws, svc) ==
    [op |-> op, product |-> <<"e", "b">>, template |-> t, n |-> n,
     copies |-> cs, draws |-> draws, results |-> run(cs, draws), svc |-> svc,
     done |-> FALSE, out |-> NoResult]

UnitIdle ==
    [op |-> "none", product |-> <<>>, template |-> <<>>, n |-> 0,
     copies |-> <<>>, draws |-> <<>>, results |-> <<>>,
     svc |-> [ok |-> FALSE, text |-> <<>>], done |-> FALSE, out |-> NoResult]

(* PromptOptimizer(copy_agent, tester, fb_agent, template) *)
Construct(t) ==
    /\ template = t
    /\ ctorTemplate = t
    /\ pc = "idle"
    /\ product = <<>>
    /\ rounds = 0
    /\ i = 0
    /\ copies = <<>>
    /\ results = <<>>
    /\ err = "none"
    /\ retval = None
    /\ sent = None
    /\ log = <<>>
    /\ startTemplate = t
    /\ genArg = None
    /\ impArg = None
    /\ lastOut = None
    /\ prior = "none"
    /\ invocation = 0

Init ==
    /\ \E t \in InitTemplates : Construct(t)
    /\ unit = UnitIdle

CallFromConstructor(p, r) ==
    /\ pc \in {"idle", "returned", "raised"}
    /\ product' = p
    /\ rounds' = r
    /\ i' = 0
    /\ pc' = "loop"
    /\ copies' = <<>>
    /\ results' = <<>>
    /\ err' = "none"
    /\ retval' = None
    /\ log' = <<>>
    /\ template' = ctorTemplate
    /\ startTemplate' = ctorTemplate
    /\ genArg' = None
    /\ impArg' = None
    /\ lastOut' = None
    /\ prior' = pc
    /\ invocation' = invocation + 1
    /\ UNCHANGED <<ctorTemplate, sent, unit>>

(* a caller enters optimize(product, rounds) on the optimizer object *)
Call(p, r) ==
    /\ pc \in {"idle", "returned", "raised"}
    /\ product' = p
    /\ rounds' = r
    /\ i' = 0
    /\ pc' = "loop"
    /\ copies' = <<>>
    /\ results' = <<>>
    /\ err' = "none"
    /\ retval' = None
    /\ log' = <<>>
    /\ startTemplate' = template
    /\ genArg' = None
    /\ impArg' = None
    /\ lastOut' = None
    /\ prior' = pc
    /\ invocation' = invocation + 1
    /\ UNCHANGED <<template, ctorTemplate, sent, unit>>

LoopContinuesOnceMore == i <= rounds

(* for _ in range(rounds) *)
LoopContinues == i < rounds

RaiseReturnsTemplate(e) ==
    /\ pc' = "returned"
    /\ err' = e
    /\ retval' = Some(template)
    /\ sent' = None
    /\ copies' = <<>>
    /\ results' = <<>>
    /\ UNCHANGED <<template, product, rounds, i, ctorTemplate,
                   startTemplate, lastOut, prior, invocation, unit>>

(* an exception leaves optimize: nothing catches it, the frame's locals die *)
Raise(e) ==
    /\ pc' = "raised"
    /\ err' = e
    /\ sent' = None
    /\ copies' = <<>>
    /\ results' = <<>>
    /\ UNCHANGED <<template, product, rounds, i, retval, ctorTemplate,
                   startTemplate, lastOut, prior, invocation, unit>>

(* generate_copies(product, self.template), up to the service call:        *)
(* the template is formatted and the prompt is sent                        *)
OptimizeGenerateCall ==
    /\ pc = "loop"
    /\ LoopContinues
    /\ genArg' = Some(template)
    /\ impArg' = impArg
    /\ LET f == Format(template, product, DefaultN)
       IN  IF f.exc # "none"
           THEN Raise(f.exc) /\ log' = log
           ELSE /\ sent' = Some(GenerationInput(f.text))
                /\ log' = Append(log, "generate")
                /\ pc' = "awaitGen"
                /\ UNCHANGED <<template, product, rounds, i, copies, results,
                               err, retval, ctorTemplate, startTemplate,
                               lastOut, prior, invocation, unit>>

(* the service call of generate_copies ends; its text is parsed into copies *)
OptimizeGenerateReturn(svc) ==
    /\ pc = "awaitGen"
    /\ UNCHANGED <<log, genArg, impArg>>
    /\ IF ~svc.ok
       THEN Raise("ServiceError")
       ELSE /\ copies' = ParseCopies(svc.text, DefaultN)
            /\ sent' = None
            /\ pc' = "run"
            /\ UNCHANGED <<template, product, rounds, i, results, err, retval,
                           ctorTemplate, startTemplate, lastOut, prior,
                           invocation, unit>>

(* results = self.tester.run(copies) *)
OptimizeRun(draws) ==
    /\ pc = "run"
    /\ results' = run(copies, draws)
    /\ log' = Append(log, "score")
    /\ pc' = "improve"
    /\ UNCHANGED <<template, product, rounds, i, copies, err, retval, sent,
                   ctorTemplate, startTemplate, genArg, impArg, lastOut,
                   prior, invocation, unit>>

OptimizeImproveCallLenient ==
    /\ pc = "improve"
    /\ impArg' = Some(template)
    /\ genArg' = genArg
    /\ sent' = Some(FeedbackInput(IF results = <<>> THEN <<>>
                                  ELSE MaxByKey(results), template))
    /\ log' = Append(log, "refine")
    /\ pc' = "awaitRefine"
    /\ UNCHANGED <<template, product, rounds, i, copies, results, err,
                   retval, ctorTemplate, startTemplate, lastOut,
                   prior, invocation, unit>>

(* improve_prompt(self.template, results), up to the service call:         *)
(* the best copy is selected and the feedback prompt is sent               *)
OptimizeImproveCall ==
    /\ pc = "improve"
    /\ impArg' = Some(template)
    /\ genArg' = genArg
    /\ IF results = <<>>
       THEN Raise("ValueError") /\ log' = log
       ELSE /\ sent' = Some(FeedbackInput(MaxByKey(results), template))
            /\ log' = Append(log, "refine")
            /\ pc' = "awaitRefine"
            /\ UNCHANGED <<template, product, rounds, i, copies, results, err,
                           retval, ctorTemplate, startTemplate, lastOut,
                           prior, invocation, unit>>

OptimizeImproveReturnDiscard(svc) ==
    /\ pc = "awaitRefine"
    /\ log' = log
    /\ IF ~svc.ok
       THEN Raise("ServiceError") /\ UNCHANGED <<genArg, impArg>>
       ELSE /\ template' = template
            /\ lastOut' = Some(Strip(svc.text, Whitespace))
            /\ i' = i + 1
            /\ pc' = "loop"
            /\ sent' = None
            /\ copies' = <<>>
            /\ results' = <<>>
            /\ genArg' = None
            /\ impArg' = None
            /\ UNCHANGED <<product, rounds, err, retval, ctorTemplate,
                           startTemplate, prior, invocation, unit>>

(* the service call of improve_prompt ends; self.template = stripped text, *)
(* and the iteration is over                                               *)
OptimizeImproveReturn(svc) ==
    /\ pc = "awaitRefine"
    /\ log' = log
    /\ IF ~svc.ok
       THEN Raise("ServiceError") /\ UNCHANGED <<genArg, impArg>>
       ELSE /\ template' = Strip(svc.text, Whitespace)
            /\ lastOut' = Some(Strip(svc.text, Whitespace))
            /\ i' = i + 1
            /\ pc' = "loop"
            /\ sent' = None
            /\ copies' = <<>>
            /\ results' = <<>>
            /\ genArg' = None
            /\ impArg' = None
            /\ UNCHANGED <<product, rounds, err, retval, ctorTemplate,
                           startTemplate, prior, invocation, unit>>

OptimizeReturnConstructed ==
    /\ pc = "loop"
    /\ ~LoopContinues
    /\ retval' = Some(ctorTemplate)
    /\ pc' = "returned"
    /\ UNCHANGED <<template, product, rounds, i, copies, results, err, sent,
                   log, ctorTemplate, startTemplate, genArg, impArg, lastOut,
                   prior, invocation, unit>>

(* return self.template *)
OptimizeReturn ==
    /\ pc = "loop"
    /\ ~LoopContinues
    /\ retval' = Some(template)
    /\ pc' = "returned"
    /\ UNCHANGED <<template, product, rounds, i, copies, results, err, sent,
                   log, ctorTemplate, startTemplate, genArg, impArg, lastOut,
                   prior, invocation, unit>>

(* one optimize call on a fresh optimizer, as main() makes it *)
Next ==
    \/ \E p \in Products, r \in 0..MaxRounds : invocation < 1 /\ Call(p, r)
    \/ OptimizeGenerateCall
    \/ \E svc \in ServiceOutcomes(Texts) : OptimizeGenerateReturn(svc)
    \/ \E draws \in Draws(copies) : OptimizeRun(draws)
    \/ OptimizeImproveCall
    \/ \E svc \in ServiceOutcomes(TemplateTexts) : OptimizeImproveReturn(svc)
    \/ OptimizeReturn

Spec == Init /\ [][Next]_vars

(* several optimize calls on the optimizer main() constructs, against a    *)
(* stub generation service                                                 *)
ReuseNext ==
    \/ \E p \in Products, r \in 0..MaxRounds :
          invocation < MaxInvocations /\ Call(p, r)
    \/ OptimizeGenerateCall
    \/ \E svc \in ServiceOutcomes(StubTexts) : OptimizeGenerateReturn(svc)
    \/ \E draws \in Draws(copies) : OptimizeRun(draws)
    \/ OptimizeImproveCall
    \/ \E svc \in ServiceOutcomes(TemplateTexts) : OptimizeImproveReturn(svc)
    \/ OptimizeReturn

ReuseSpec == Init /\ [][ReuseNext]_vars

---------------------------------------------------------------------------
(* Direct calls of the agents' methods: the arguments are drawn in the      *)
(* initial state and the method is applied to them in one step.            *)

Candidates == {<<>>, <<"a">>, <<"b">>}

NoService == [ok |-> FALSE, text |-> <<>>]

UnitInit ==
    /\ Construct(MainTemplate)
    /\ \/ \E t \in TemplateTexts, n \in 1..MaxCount,
             svc \in ServiceOutcomes(Texts) :
             unit = UnitCall("generate", t, n, <<>>, <<>>, svc)
       \/ \E cs \in SeqsUpTo(Candidates, MaxCopies) : \E draws \in Draws(cs) :
             unit = UnitCall("run", <<>>, 0, cs, draws, NoService)
       \/ \E cs \in SeqsUpTo(Candidates, MaxCopies) : \E draws \in Draws(cs) :
             \E t \in InitTemplates, svc \in ServiceOutcomes(TemplateTexts) :
                unit = UnitCall("improve", t, 0, cs, draws, svc)

(* CopyWriterAgent.generate_copies(product, prompt_template, n) *)
UnitGenerate ==
    /\ unit.op = "generate"
    /\ ~unit.done
    /\ unit' = [unit EXCEPT
                  !.done = TRUE,
                  !.out = generate_copies(unit.product, unit.template, unit.n,
                                          unit.svc)]
    /\ UNCHANGED optVars

(* ABTesterAgent.run(copies) *)
UnitRun ==
    /\ unit.op = "run"
    /\ ~unit.done
    /\ unit' = [unit EXCEPT
                  !.done = TRUE,
                  !.out = [exc |-> "none", value |-> run(unit.copies, unit.draws),
                           sent |-> <<>>]]
    /\ UNCHANGED optVars

(* FeedbackAgent.improve_prompt(template, results) *)
UnitImprove ==
    /\ unit.op = "improve"
    /\ ~unit.done
    /\ unit' = [unit EXCEPT
                  !.done = TRUE,
                  !.out = improve_prompt(unit.template, unit.results, unit.svc)]
    /\ UNCHANGED optVars

UnitNext == UnitGenerate \/ UnitRun \/ UnitImprove

UnitSpec == UnitInit /\ [][UnitNext]_vars

---------------------------------------------------------------------------
(* Properties *)

RECURSIVE RoundsLog(_)
RoundsLog(k) ==
    IF k = 0 THEN <<>>
    ELSE RoundsLog(k - 1) \o <<"generate", "score", "refine">>

IsPrefix(s, t) == Len(s) <= Len(t) /\ SubSeq(t, 1, Len(s)) = s

Count(s, x) == Cardinality({j \in DOMAIN s : s[j] = x})

Terminated == pc \in {"returned", "raised"}

Range(s) == {s[j] : j \in DOMAIN s}

HasBothSlots(t) == "{product}" \in Range(t) /\ "{n}" \in Range(t)

Formattable(t) == Range(t) \subseteq {"{product}", "{n}", " "}

Blank(item) == \A j \in DOMAIN item : item[j] \in Whitespace

HasBulletPrefix(item) ==
    Len(item) >= 2 /\ item[1] = "-" /\ item[2] = " "

(* C1: an optimize call with rounds = 0 returns the template the optimizer *)
(* held when the call was entered, leaves the stored template as it was,   *)
(* and sends nothing to the text-generation service: no generation call    *)
(* and no refinement call is logged or in progress.                        *)
C1_ZeroRounds ==
    (invocation >= 1 /\ rounds = 0) =>
        /\ pc \in {"loop", "returned"}
        /\ log = <<>>
        /\ sent = None
        /\ template = startTemplate
        /\ pc = "returned" => retval = Some(startTemplate)

C1_Witness ==
    /\ pc = "returned"
    /\ rounds = 0
    /\ invocation = 2
    /\ retval = Some(startTemplate)
    /\ startTemplate # ctorTemplate

(* C2, as stated: whenever optimize, entered with a template that has both *)
(* fields, ends without a service call having failed and without a         *)
(* generation response lacking a usable line, it has made exactly rounds   *)
(* generation calls and rounds refinement calls, in the order generate,    *)
(* score, refine of each round.                                            *)
C2_Original ==
    (/\ Terminated
     /\ err \notin {"ServiceError", "ValueError"}
     /\ HasBothSlots(startTemplate)) =>
        /\ Count(log, "generate") = rounds
        /\ Count(log, "refine") = rounds
        /\ log = RoundsLog(rounds)

(* C2, amended: the calls of an optimize call always form a prefix of      *)
(* (generate, score, refine) repeated rounds times, and when optimize ends *)
(* without a failed service call, without a generation response lacking a  *)
(* usable line and without a template that fails to format, it has made    *)
(* exactly rounds generation calls and rounds refinement calls.            *)
C2_Amended ==
    /\ IsPrefix(log, RoundsLog(rounds))
    /\ (Terminated /\ err \notin {"ServiceError", "ValueError", "KeyError"}) =>
          /\ log = RoundsLog(rounds)
          /\ Count(log, "generate") = rounds
          /\ Count(log, "refine") = rounds

C2_Witness ==
    /\ pc = "returned"
    /\ rounds = 2
    /\ err = "none"
    /\ Count(log, "generate") = 2
    /\ Count(log, "refine") = 2

(* C3, as stated: generate_copies never returns more than n items, and     *)
(* every item it returns is non-blank and does not start with "- ".        *)
C3_Original ==
    (unit.op = "generate" /\ unit.done /\ unit.out.exc = "none") =>
        /\ Len(unit.out.value) <= unit.n
        /\ \A j \in DOMAIN unit.out.value :
              /\ ~Blank(unit.out.value[j])
              /\ ~HasBulletPrefix(unit.out.value[j])

(* C4: improve_prompt on an empty results dict raises before it sends      *)
(* anything; in an optimize round whose generation yields no copies, run   *)
(* gets the empty list and returns the empty dict, and the round ends with *)
(* the error after one generation call and no refinement call.             *)
C4_EmptyScores ==
    /\ [](pc = "improve" /\ copies = <<>> => results = <<>>)
    /\ [](err = "ValueError" =>
            /\ pc = "raised"
            /\ retval = None
            /\ log = RoundsLog(i) \o <<"generate", "score">>)
    /\ [][(pc = "improve" /\ results = <<>>) =>
            /\ pc' = "raised"
            /\ err' = "ValueError"
            /\ log' = log
            /\ sent' = None]_vars

C4_Witness ==
    /\ pc = "raised"
    /\ err = "ValueError"
    /\ Count(log, "generate") = i + 1
    /\ Count(log, "refine") = i

(* C5: on a non-empty results dict, improve_prompt sends a feedback prompt *)
(* whose embedded copy is a key of the dict with a score no other key's    *)
(* score exceeds, ties included.                                           *)
C5_SelectsMaximum ==
    (unit.op = "improve" /\ unit.done /\ unit.results # <<>>) =>
        /\ Len(unit.out.sent) = 1
        /\ LET best == unit.out.sent[1].input.best_copy
           IN  /\ best \in Keys(unit.results)
               /\ \A k \in Keys(unit.results) :
                     Get(unit.results, k) <= Get(unit.results, best)

C5_Witness ==
    /\ unit.op = "improve"
    /\ unit.done
    /\ Len(unit.results) = 2
    /\ unit.results[1][2] = unit.results[2][2]
    /\ Len(unit.out.sent) = 1

(* C6: once a step of optimize fails, the exception leaves optimize: no    *)
(* value is returned, the failing step appears once in the log, and        *)
(* nothing more is sent or changed by that call.                           *)
C6_FailureAborts ==
    [][/\ err' # "none" =>
             /\ pc' = "raised"
             /\ retval' = None
             /\ sent' = None
             /\ \/ log' = RoundsLog(i')
                \/ log' = RoundsLog(i') \o <<"generate">>
                \/ log' = RoundsLog(i') \o <<"generate", "score">>
                \/ log' = RoundsLog(i') \o <<"generate", "score", "refine">>
       /\ (pc = "raised" /\ invocation' = invocation) =>
             UNCHANGED <<pc, err, log, retval, sent, template, i>>]_vars

C6_Witness ==
    /\ pc = "raised"
    /\ err = "ServiceError"
    /\ i = 1
    /\ log = RoundsLog(1) \o <<"generate">>

(* C7, as stated: a generation service call is made only for a template    *)
(* that contains both the product field and the count field.               *)
C7_Original ==
    pc = "awaitGen" => HasBothSlots(genArg[1])

(* C7, amended: generate_copies fails with a formatting error, before any  *)
(* service call, exactly when the template holds a replacement field other *)
(* than product and n, also for a template the Refiner produced; a         *)
(* template that merely lacks a field formats and is sent.                 *)
C7_Amended ==
    genArg # None =>
        IF Formattable(genArg[1])
        THEN err # "KeyError"
        ELSE /\ pc = "raised"
             /\ err = "KeyError"
             /\ log = RoundsLog(i)
             /\ sent = None

C7_Witness ==
    /\ pc = "raised"
    /\ err = "KeyError"
    /\ i >= 1
    /\ genArg = lastOut
    /\ log = RoundsLog(i)

(* C8: the dict run returns has as keys exactly the distinct strings of    *)
(* the copies generated that round, one entry per key, every score in      *)
(* [0, 1).                                                                 *)
C8_ScoredSet ==
    pc \in {"improve", "awaitRefine"} =>
        /\ Keys(results) = Range(copies)
        /\ Len(results) = Cardinality(Range(copies))
        /\ \A j \in DOMAIN results :
              results[j][2] >= 0 /\ results[j][2] < ScoreLevels

C8_Witness ==
    /\ pc = "improve"
    /\ Len(copies) = 2
    /\ copies[1] = copies[2]
    /\ Len(results) = 1

(* C9: in each round generate_copies and improve_prompt get the same       *)
(* template, the one held at entry in the first round and the previous     *)
(* round's improve_prompt result afterwards; the stored template changes   *)
(* only when a round ends, to that round's improve_prompt result, and a    *)
(* call of one round or more that does not fail returns the last result.   *)
C9_TemplateThreading ==
    /\ [](genArg # None =>
            /\ genArg = Some(template)
            /\ genArg = IF i = 0 THEN Some(startTemplate) ELSE lastOut)
    /\ [](impArg # None => impArg = genArg)
    /\ [](pc = "awaitRefine" => sent[1].input.template = genArg[1])
    /\ [](i >= 1 => lastOut = Some(template))
    /\ []((pc = "returned" /\ rounds >= 1) => retval = lastOut)
    /\ [][template' # template =>
            /\ pc = "awaitRefine"
            /\ pc' = "loop"
            /\ i' = i + 1
            /\ template' = lastOut'[1]]_vars

C9_Witness ==
    /\ pc = "awaitRefine"
    /\ i = 1
    /\ impArg = lastOut
    /\ genArg = lastOut
    /\ lastOut # Some(startTemplate)

(* C10: a failed optimize call leaves the optimizer holding the template   *)
(* of the last completed round (the one held at entry if none completed),  *)
(* and the next optimize call on the object starts from the held template. *)
C10_NoRollback ==
    /\ [](pc = "raised" =>
            template = IF i = 0 THEN startTemplate ELSE lastOut[1])
    /\ [][invocation' # invocation =>
            /\ template' = template
            /\ startTemplate' = template]_vars
    /\ []((genArg # None /\ i = 0) => genArg = Some(startTemplate))

C10_Witness ==
    /\ invocation = 2
    /\ prior = "raised"
    /\ pc = "awaitGen"
    /\ genArg = Some(startTemplate)
    /\ startTemplate # ctorTemplate

====
